---------------------------- MODULE Spec2Model ----------------------------
(***************************************************************************)
(* A model of tools/php2jinja.py (the PHP-to-Jinja2 transpiler) together   *)
(* with the node kinds of phply/phpast.py it dispatches on.                *)
(*                                                                         *)
(* Python values are records tagged with "kind": None, str, bool, list and *)
(* one kind per node class.  A str is a sequence of one-character strings. *)
(* An output text is a sequence of pieces, each piece either the newline   *)
(* "\n" or a non-empty string without newline, no two strings adjacent     *)
(* (so that two texts are equal exactly when the Python strings are).      *)
(* A call returns either a text or a raised exception; the two globals     *)
(* (called_functions, loop_var_index) are threaded through every call.     *)
(***************************************************************************)
EXTENDS Integers, Sequences, FiniteSets, TLC

VARIABLES
  pc,               \* position of the module-level driver (or of the caller)
  args,             \* argparse result: output, dry_run, stubs, use_line_statements
  outfile,          \* content of the template output destination
  stubsfile,        \* content of the stub destination
  ast,              \* parser.parse(...) result: list of top-level nodes
  jinja,            \* the driver's variable jinja
  called_functions, \* global registry: sequence of [name, nodes] in first-seen order
  loop_var_index,   \* global fresh-name counter
  call,             \* the last function call made by a caller: what was called on what
  ret               \* the outcome of the last call: the exception raised or the text

vars == <<pc, args, outfile, stubsfile, ast, jinja, called_functions,
          loop_var_index, call, ret>>

-----------------------------------------------------------------------------
(* Bounds of the model                                                      *)

MaxTop == 2        \* longest list of top-level nodes the parser returns

-----------------------------------------------------------------------------
(* Texts                                                                    *)

NL == <<"\n">>

T(s) == IF s = "" THEN <<>> ELSE <<s>>

Cat(a, b) ==
  IF a = <<>> THEN b
  ELSE IF b = <<>> THEN a
  ELSE IF a[Len(a)] # "\n" /\ b[1] # "\n"
       THEN SubSeq(a, 1, Len(a) - 1) \o <<a[Len(a)] \o b[1]>> \o Tail(b)
       ELSE a \o b

RECURSIVE CatAll(_)
CatAll(ts) == IF ts = <<>> THEN <<>> ELSE Cat(Head(ts), CatAll(Tail(ts)))

\* sep.join(ts)
RECURSIVE Join(_, _)
Join(sep, ts) ==
  IF ts = <<>> THEN <<>>
  ELSE IF Len(ts) = 1 THEN ts[1]
  ELSE CatAll(<<ts[1], sep, Join(sep, Tail(ts))>>)

\* a str (sequence of characters) as a text
RECURSIVE StrOf(_)
StrOf(chars) == IF chars = <<>> THEN "" ELSE Head(chars) \o StrOf(Tail(chars))

Txt(chars) == T(StrOf(chars))

\* indent_with * n
RECURSIVE Tabs(_)
Tabs(n) == IF n <= 0 THEN <<>> ELSE Cat(T("\t"), Tabs(n - 1))


\* a str with its newlines, as a text (str(x) of a str x)
RECURSIVE TextOf(_)
TextOf(chars) ==
  IF chars = <<>> THEN <<>>
  ELSE Cat(IF Head(chars) = "\n" THEN NL ELSE T(Head(chars)), TextOf(Tail(chars)))

-----------------------------------------------------------------------------
(* Python values and the node kinds of phpast.py                            *)

None == [kind |-> "None"]
S(chars) == [kind |-> "str", val |-> chars]
B(b) == [kind |-> "bool", val |-> b]
L(items) == [kind |-> "list", items |-> items]

\* class name -> fields, one entry per node(...) call
Fields ==
  [ InlineHTML |-> <<"data">>,
    Block |-> <<"nodes">>,
    Assignment |-> <<"node", "expr", "is_ref">>,
    ListAssignment |-> <<"nodes", "expr">>,
    New |-> <<"name", "params">>,
    Clone |-> <<"node">>,
    Break |-> <<"node">>,
    Continue |-> <<"node">>,
    Return |-> <<"node">>,
    Global |-> <<"nodes">>,
    Static |-> <<"nodes">>,
    Echo |-> <<"nodes">>,
    Unset |-> <<"nodes">>,
    Throw |-> <<"node">>,
    Function |-> <<"name", "params", "nodes", "is_ref">>,
    Method |-> <<"name", "modifiers", "params", "nodes", "is_ref">>,
    Class |-> <<"name", "type", "extends", "implements", "nodes">>,
    ClassConstants |-> <<"nodes">>,
    ClassConstant |-> <<"name", "initial">>,
    ClassVariables |-> <<"modifiers", "nodes">>,
    ClassVariable |-> <<"name", "initial">>,
    Interface |-> <<"name", "extends", "nodes">>,
    AssignOp |-> <<"op", "left", "right">>,
    BinaryOp |-> <<"op", "left", "right">>,
    UnaryOp |-> <<"op", "expr">>,
    TernaryOp |-> <<"expr", "iftrue", "iffalse">>,
    PreIncDecOp |-> <<"op", "expr">>,
    PostIncDecOp |-> <<"op", "expr">>,
    Cast |-> <<"type", "expr">>,
    IsSet |-> <<"expr">>,
    Empty |-> <<"expr">>,
    Eval |-> <<"expr">>,
    Include |-> <<"expr", "once">>,
    Require |-> <<"expr", "once">>,
    Exit |-> <<"expr">>,
    Silence |-> <<"expr">>,
    MagicConstant |-> <<"name", "value">>,
    Constant |-> <<"name">>,
    Variable |-> <<"name">>,
    StaticVariable |-> <<"name", "initial">>,
    FormalParameter |-> <<"name", "default", "is_ref">>,
    Parameter |-> <<"node", "is_ref">>,
    FunctionCall |-> <<"name", "params">>,
    Array |-> <<"nodes">>,
    ArrayElement |-> <<"name", "node", "is_ref">>,
    ArrayOffset |-> <<"node", "expr">>,
    StringOffset |-> <<"node", "expr">>,
    ObjectProperty |-> <<"node", "name">>,
    StaticProperty |-> <<"node", "name">>,
    MethodCall |-> <<"node", "name", "params">>,
    ScopeResolution |-> <<"class_", "node">>,
    If |-> <<"expr", "node", "elseifs", "else_">>,
    ElseIf |-> <<"expr", "node">>,
    Else |-> <<"node">>,
    While |-> <<"expr", "node">>,
    DoWhile |-> <<"node", "expr">>,
    For |-> <<"start", "test", "count", "node">>,
    ForEach |-> <<"expr", "keyvar", "valvar", "node">>,
    ForEachVariable |-> <<"name", "is_ref">>,
    Switch |-> <<"expr", "nodes">>,
    Case |-> <<"expr", "nodes">>,
    Default |-> <<"nodes">> ]
  @@ ("Print" :> <<"node">>)

\* a namespace in which the loop and static-call classes carry the names php2jinja.py uses
ClassesRespelled ==
  ("Foreach" :> Fields["ForEach"])
  @@ ("ForeachVariable" :> Fields["ForEachVariable"])
  @@ ("StaticMethodCall" :> <<"class_", "name", "params">>)
  @@ [k \in DOMAIN Fields \ {"ForEach", "ForEachVariable"} |-> Fields[k]]

\* the classes "from phply.phpast import *" binds in php2jinja.py, by name
Classes == Fields

Kinds == DOMAIN Classes

FieldSet(kind) == {Classes[kind][i] : i \in 1..Len(Classes[kind])}

\* Node.__init__: the constructor of class `kind` applied to positional values
RECURSIVE SetAttrs(_, _, _)
SetAttrs(self, fields, values) ==
  IF fields = <<>> THEN self
  ELSE SetAttrs(self @@ (Head(fields) :> Head(values)), Tail(fields), Tail(values))

Node(kind, values) == SetAttrs("kind" :> kind, Classes[kind], values)

\* the arity assertion of Node.__init__
ArityOk(kind, values) == Len(Classes[kind]) = Len(values)

IsNode(v) == v.kind \in Kinds

\* getattr succeeds: only a node has fields
HasAttr(v, f) == IsNode(v) /\ f \in FieldSet(v.kind)

\* truth value of a Python value
Truthy(v) ==
  CASE v.kind = "None" -> FALSE
    [] v.kind = "str"  -> v.val # <<>>
    [] v.kind = "bool" -> v.val
    [] v.kind = "int"  -> v.val # 0
    [] v.kind = "list" -> v.items # <<>>
    [] OTHER -> TRUE

\* repr of a str: quoted, newline escaped
ReprStr(chars) ==
  Cat(Cat(T("'"), Txt([i \in 1..Len(chars) |->
                        IF chars[i] = "\n" THEN "\\n" ELSE chars[i]])), T("'"))

\* Node.__repr__, and repr of the values a field may hold
RECURSIVE Repr(_)
Repr(v) ==
  CASE v.kind = "None" -> T("None")
    [] v.kind = "str"  -> ReprStr(v.val)
    [] v.kind = "bool" -> IF v.val THEN T("True") ELSE T("False")
    [] v.kind = "int"  -> T(ToString(v.val))
    [] v.kind = "list" ->
         CatAll(<<T("["), Join(T(", "), [i \in 1..Len(v.items) |-> Repr(v.items[i])]), T("]")>>)
    [] OTHER ->
         CatAll(<<T(v.kind), T("("),
                  Join(T(", "), [i \in 1..Len(Classes[v.kind]) |-> Repr(v[Classes[v.kind][i]])]),
                  T(")")>>)

-----------------------------------------------------------------------------
(* Outcomes of a call: a returned text or a raised exception, with the      *)
(* globals st = [calls, idx] as the call left them                          *)

Ret(text, st) == [exc |-> "", text |-> text, st |-> st]
Raise(exc, st) == [exc |-> exc, text |-> <<>>, st |-> st]

\* the isinstance tests of unparse_node in source order: the class names each looks
\* up, and the branch taken on a match
Chain ==
  << <<{"InlineHTML"}, "InlineHTML">>, <<{"Constant"}, "Constant">>,
     <<{"Variable"}, "Variable">>, <<{"Echo"}, "Echo">>,
     <<{"Include", "Require"}, "Include">>, <<{"Block"}, "Block">>,
     <<{"ArrayOffset"}, "ArrayOffset">>, <<{"ObjectProperty"}, "ObjectProperty">>,
     <<{"Array"}, "Array">>, <<{"ArrayElement"}, "ArrayElement">>,
     <<{"Assignment"}, "Assignment">>, <<{"AssignOp"}, "AssignOp">>,
     <<{"UnaryOp"}, "UnaryOp">>, <<{"BinaryOp"}, "BinaryOp">>,
     <<{"TernaryOp"}, "TernaryOp">>, <<{"IsSet"}, "IsSet">>, <<{"Empty"}, "Empty">>,
     <<{"Silence"}, "Silence">>, <<{"Cast"}, "Cast">>, <<{"If"}, "If">>,
     <<{"While"}, "While">>, <<{"Foreach"}, "Foreach">>, <<{"Function"}, "Function">>,
     <<{"Return"}, "Return">>, <<{"FunctionCall"}, "FunctionCall">>,
     <<{"MethodCall"}, "MethodCall">>, <<{"StaticMethodCall"}, "StaticMethodCall">>,
     <<{"New"}, "New">> >>

\* a class name of the test is unbound: evaluating the test raises NameError
Unbound(names) == \E n \in names : n \notin Kinds

\* the test holds and its branch returns ("if node.op == '.='" has no else: an
\* AssignOp with another operator goes on to the tests below)
Matches(node, i) ==
  /\ node.kind \in Chain[i][1]
  /\ Chain[i][2] = "AssignOp" => node.op = [kind |-> "str", val |-> <<".", "=">>]

\* the outcome of the test at which the chain stops
Stop(i) == IF Unbound(Chain[i][1]) THEN "NameError" ELSE Chain[i][2]

FirstOf(stops) == CHOOSE i \in stops : \A j \in stops : i <= j

\* where the chain of tests ends for node: a branch, NameError, or the final returns
Taken(node) ==
  IF \A i \in 1..Len(Chain) : ~Unbound(Chain[i][1]) /\ ~Matches(node, i)
  THEN "Unknown"
  ELSE Stop(FirstOf({i \in 1..Len(Chain) : Unbound(Chain[i][1]) \/ Matches(node, i)}))

-----------------------------------------------------------------------------
(* jinja tag generators                                                     *)

jstatement(items, indent, inline, lstrip, rstrip) ==
  IF ~inline /\ args.use_line_statements
  THEN CatAll(<<NL, T("# "), Tabs(indent), Join(T(" "), items), NL>>)
  ELSE CatAll(<<Tabs(indent), T("{%"), IF lstrip THEN T("-") ELSE <<>>, T(" "),
                Join(T(" "), items), T(" "), IF rstrip THEN T("-") ELSE <<>>, T("%}")>>)

\* jexpr with the trailing whitespace control left out
jexpr_unstripped(body, indent, lstrip, rstrip) ==
  CatAll(<<Tabs(indent), T("{{"), IF lstrip THEN T("-") ELSE <<>>, T(" "),
           body, T(" "), T("}}")>>)

jexpr(body, indent, lstrip, rstrip) ==
  CatAll(<<Tabs(indent), T("{{"), IF lstrip THEN T("-") ELSE <<>>, T(" "),
           body, T(" "), IF rstrip THEN T("-") ELSE <<>>, T("}}")>>)

jcomment(body) == CatAll(<<T("{# "), body, T(" #}")>>)

op_map ==
  { <<<<"&", "&">>, "and">>, <<<<"|", "|">>, "or">>, <<<<"!">>, "not">>,
    <<<<"!", "=", "=">>, "!=">>, <<<<"=", "=", "=">>, "==">>, <<<<".">>, "~">> }

\* op_map.get(op, op)
OpMapGet(op) ==
  IF \E e \in op_map : e[1] = op
  THEN T((CHOOSE e \in op_map : e[1] = op)[2])
  ELSE Txt(op)

constant_map ==
  { <<<<"n", "u", "l", "l">>, "none">>, <<<<"t", "r", "u", "e">>, "true">>,
    <<<<"f", "a", "l", "s", "e">>, "false">> }

\* str.lower() on the letters the model's constants use
LowerChar(c) ==
  CASE c = "N" -> "n" [] c = "U" -> "u" [] c = "L" -> "l" [] c = "T" -> "t"
    [] c = "R" -> "r" [] c = "E" -> "e" [] c = "F" -> "f" [] c = "A" -> "a"
    [] c = "S" -> "s" [] c = "P" -> "p" [] c = "I" -> "i" [] OTHER -> c

Lower(chars) == [i \in 1..Len(chars) |-> LowerChar(chars[i])]

\* constant_map.get(name.lower(), str(name))
ConstantMapGet(name) ==
  IF \E e \in constant_map : e[1] = Lower(name)
  THEN T((CHOOSE e \in constant_map : e[1] = Lower(name))[2])
  ELSE TextOf(name)

\* s[1:]
Slice1(chars) == SubSeq(chars, 2, Len(chars))

\* s.endswith(suffix)
EndsWith(chars, suffix) ==
  /\ Len(chars) >= Len(suffix)
  /\ SubSeq(chars, Len(chars) - Len(suffix) + 1, Len(chars)) = suffix

\* called_functions.setdefault(name, []).append(node)
Record(calls, name, node) ==
  IF \E i \in 1..Len(calls) : calls[i].name = name
  THEN [i \in 1..Len(calls) |->
          IF calls[i].name = name
          THEN [calls[i] EXCEPT !.nodes = Append(@, node)] ELSE calls[i]]
  ELSE Append(calls, [name |-> name, nodes |-> <<node>>])

-----------------------------------------------------------------------------
(* unparse_node: the dispatch over node kinds                               *)

RECURSIVE unparse_node(_, _, _, _)
RECURSIVE Calls(_, _)
RECURSIVE ElseIfs(_, _, _)

\* r raised: the raise goes on to the caller; r returned: the caller goes on with F
Then(r, F(_)) == IF r.exc # "" THEN Raise(r.exc, r.st) ELSE F(r)

\* the same inside a loop that collects texts
ThenEach(r, F(_)) ==
  IF r.exc # "" THEN [exc |-> r.exc, texts |-> <<>>, st |-> r.st] ELSE F(r)

\* unparse_node(c[1], c[2], c[3]) for each c of cs in order, stopping at the first raise
Calls(cs, st) ==
  IF cs = <<>> THEN [exc |-> "", texts |-> <<>>, st |-> st]
  ELSE ThenEach(unparse_node(cs[1][1], cs[1][2], cs[1][3], st), LAMBDA r :
         ThenEach(Calls(Tail(cs), r.st), LAMBDA rest :
           [exc |-> "", texts |-> <<r.text>> \o rest.texts, st |-> rest.st]))

\* unparse_node(x, is_expr) for x in a list value
Each(v, is_expr, st) ==
  IF v.kind # "list" THEN [exc |-> "TypeError", texts |-> <<>>, st |-> st]
  ELSE Calls([i \in 1..Len(v.items) |-> <<v.items[i], is_expr, 0>>], st)

\* [unparse_node(param.node, True) for param in params]
RECURSIVE Params(_, _)
Params(params, st) ==
  IF params = <<>> THEN [exc |-> "", texts |-> <<>>, st |-> st]
  ELSE IF ~HasAttr(params[1], "node") THEN [exc |-> "AttributeError", texts |-> <<>>, st |-> st]
  ELSE ThenEach(unparse_node(params[1].node, TRUE, 0, st), LAMBDA r :
         ThenEach(Params(Tail(params), r.st), LAMBDA rest :
           [exc |-> "", texts |-> <<r.text>> \o rest.texts, st |-> rest.st]))

Echo(node, st) ==
  Then(Each(node.nodes, TRUE, st), LAMBDA r :
    Ret(jexpr(Cat(CatAll(r.texts), T(" | safe")), 0, FALSE, TRUE), r.st))

Include(node, st) ==
  Then(unparse_node(node.expr, TRUE, 0, st), LAMBDA r :
    Ret(CatAll(<<T("{% include "), r.text, T(" -%}")>>), r.st))

Block(node, st) ==
  Then(Each(node.nodes, FALSE, st), LAMBDA r : Ret(CatAll(r.texts), r.st))

ArrayOffset(node, st) ==
  Then(Calls(<<<<node.node, TRUE, 0>>, <<node.expr, TRUE, 0>>>>, st), LAMBDA r :
    Ret(CatAll(<<r.texts[1], T("["), r.texts[2], T("]")>>), r.st))

ObjectProperty(node, st) ==
  Then(unparse_node(node.node, TRUE, 0, st), LAMBDA r :
    Ret(CatAll(<<r.text, T("."),
                 IF node.name.kind = "str" THEN TextOf(node.name.val) ELSE Repr(node.name)>>),
        r.st))

Array(node, st) ==
  Then(Each(node.nodes, TRUE, st), LAMBDA r :
    IF node.nodes.items # <<>> /\ ~HasAttr(node.nodes.items[1], "key")
    THEN Raise("AttributeError", r.st)
    ELSE IF node.nodes.items # <<>> /\ node.nodes.items[1].key # None
         THEN Ret(CatAll(<<T("{"), Join(T(", "), r.texts), T("}")>>), r.st)
    ELSE Ret(CatAll(<<T("["), Join(T(", "), r.texts), T("]")>>), r.st))

ArrayElement(node, st) ==
  IF ~HasAttr(node, "key") THEN Raise("AttributeError", st)
  ELSE IF ~HasAttr(node, "value") THEN Raise("AttributeError", st)
  ELSE IF Truthy(node.key)
       THEN Then(Calls(<<<<node.key, TRUE, 0>>, <<node.value, TRUE, 0>>>>, st), LAMBDA r :
              Ret(CatAll(<<r.texts[1], T(": "), r.texts[2]>>), r.st))
  ELSE unparse_node(node.value, TRUE, 0, st)

Assignment(node, st) ==
  IF node.node.kind = "ArrayOffset" /\ node.node.expr = None
  THEN Then(Calls(<<<<node.node.node, FALSE, 0>>, <<node.expr, TRUE, 0>>>>, st), LAMBDA r :
         Ret(CatAll(<<T("{% do "), r.texts[1], T(".append("), r.texts[2], T(") -%}")>>),
             r.st))
  ELSE Then(Calls(<<<<node.node, TRUE, 0>>, <<node.expr, TRUE, 0>>>>, st), LAMBDA r :
         Ret(jstatement(<<T("set"), r.texts[1], T("="), r.texts[2]>>, 0, FALSE, FALSE, TRUE),
             r.st))

\* the body of "if node.op == '.='"
AssignOp(node, st) ==
  Then(Calls(<<<<node.left, TRUE, 0>>, <<node.right, TRUE, 0>>>>, st), LAMBDA r :
    Ret(CatAll(<<T("{% set "), r.texts[1], T(" = "), r.texts[1], T(" ~ "),
                 r.texts[2], T(" -%}")>>), r.st))

UnaryOp(node, st) ==
  Then(unparse_node(node.expr, TRUE, 0, st), LAMBDA r :
    Ret(CatAll(<<T("("), OpMapGet(node.op.val), T(" "), r.text, T(")")>>), r.st))

BinaryOp(node, st) ==
  Then(Calls(<<<<node.left, TRUE, 0>>, <<node.right, TRUE, 0>>>>, st), LAMBDA r :
    Ret(CatAll(<<T("("), r.texts[1], T(" "), OpMapGet(node.op.val), T(" "),
                 r.texts[2], T(")")>>), r.st))

TernaryOp(node, st) ==
  Then(Calls(<<<<node.iftrue, TRUE, 0>>, <<node.expr, TRUE, 0>>,
                <<node.iffalse, TRUE, 0>>>>, st), LAMBDA r :
    Ret(CatAll(<<T("("), r.texts[1], T(" if "), r.texts[2], T(" else "),
                 r.texts[3], T(")")>>), r.st))

\* '(%s is defined)' of each text
Defined(texts) == [i \in 1..Len(texts) |-> CatAll(<<T("("), texts[i], T(" is defined)")>>)]

IsSet(node, st) ==
  IF ~HasAttr(node, "nodes") THEN Raise("AttributeError", st)
  ELSE IF node.nodes.kind # "list" THEN Raise("TypeError", st)
  ELSE Then(Each(node.nodes, TRUE, st), LAMBDA r :
         IF Len(node.nodes.items) = 1 THEN Ret(Defined(r.texts)[1], r.st)
         ELSE Ret(CatAll(<<T("("), Join(T(" and "), Defined(r.texts)), T(")")>>), r.st))

Empty(node, st) ==
  Then(unparse_node(node.expr, TRUE, 0, st), LAMBDA r :
    Ret(CatAll(<<T("(not "), r.text, T(")")>>), r.st))

Silence(node, st) == unparse_node(node.expr, TRUE, 0, st)

Cast(node, st) ==
  Then(unparse_node(node.expr, TRUE, 0, st), LAMBDA r :
    Ret(Cat(r.text,
            IF node.type.val \in {<<"i", "n", "t">>, <<"f", "l", "o", "a", "t">>,
                                   <<"s", "t", "r", "i", "n", "g">>}
            THEN Cat(T("|"), Txt(node.type.val)) ELSE <<>>), r.st))

\* the loop over node.elseifs: the text appended to body
ElseIfs(elseifs, indent, st) ==
  IF elseifs = <<>> THEN Ret(<<>>, st)
  ELSE IF ~HasAttr(elseifs[1], "expr") \/ ~HasAttr(elseifs[1], "node")
       THEN Raise("AttributeError", st)
  ELSE Then(Calls(<<<<elseifs[1].expr, TRUE, 0>>,
                    <<elseifs[1].node, FALSE, indent + 1>>>>, st), LAMBDA r :
         Then(ElseIfs(Tail(elseifs), indent, r.st), LAMBDA rest :
           Ret(CatAll(<<NL, T("{% elif "), r.texts[1], T(" -%}"), NL,
                        Tabs(indent + 1), r.texts[2], rest.text>>), rest.st)))

\* "if node.else_: body += ...": the text appended to body
ElseOf(node, indent, st) ==
  IF ~Truthy(node.else_) THEN Ret(<<>>, st)
  ELSE IF ~HasAttr(node.else_, "node") THEN Raise("AttributeError", st)
  ELSE Then(unparse_node(node.else_.node, FALSE, indent + 1, st), LAMBDA r :
         Ret(CatAll(<<NL, T("{% else -%}"), NL, r.text>>), r.st))

If(node, indent, st) ==
  Then(unparse_node(node.node, FALSE, 0, st), LAMBDA b :
    IF node.elseifs.kind # "list" THEN Raise("TypeError", b.st)
    ELSE Then(ElseIfs(node.elseifs.items, indent, b.st), LAMBDA ei :
           Then(ElseOf(node, indent, ei.st), LAMBDA el :
             Then(unparse_node(node.expr, TRUE, 0, el.st), LAMBDA c :
               Ret(CatAll(<<T("{% if "), c.text, T(" -%}"), NL, Tabs(indent + 1),
                            b.text, ei.text, el.text, NL, T("{% endif -%}")>>), c.st)))))

While(node, st) ==
  IF Unbound({"Foreach"}) \/ Unbound({"ForeachVariable"}) THEN Raise("NameError", st)
  ELSE unparse_node(
         Node("Foreach",
              <<node.expr, None,
                Node("ForeachVariable",
                     <<S(<<"$", "l", "o", "o", "p", "_", "v", "a", "r", "_",
                           ToString(st.idx)>>), B(FALSE)>>),
                node.node>>),
         FALSE, 0, [st EXCEPT !.idx = @ + 1])

\* the loop header and body, name being the value variable's name
ForeachOf(node, name, st) ==
  IF name.kind # "str" THEN Raise("TypeError", st)
  ELSE IF Truthy(node.keyvar) /\ ~HasAttr(node.keyvar, "name") THEN Raise("AttributeError", st)
  ELSE IF Truthy(node.keyvar) /\ node.keyvar.name.kind # "str" THEN Raise("TypeError", st)
  ELSE Then(Calls(<<<<node.expr, TRUE, 0>>, <<node.node, FALSE, 0>>>>, st), LAMBDA r :
         Ret(CatAll(<<T("{% for "),
                      IF Truthy(node.keyvar)
                      THEN CatAll(<<TextOf(Slice1(node.keyvar.name.val)), T(", "),
                                    TextOf(Slice1(name.val))>>)
                      ELSE TextOf(Slice1(name.val)),
                      T(" in "), r.texts[1], T(" -%}"), r.texts[2], T("{% endfor -%}")>>),
             r.st))

Foreach(node, st) ==
  IF ~HasAttr(node.valvar, "name") THEN Raise("AttributeError", st)
  ELSE IF node.valvar.name.kind = "Variable"
       THEN ForeachOf(node, node.valvar.name.name, st)
  ELSE ForeachOf(node, node.valvar.name, st)

Function(node, st) ==
  IF node.params.kind # "list" THEN Raise("TypeError", st)
  ELSE IF \E i \in 1..Len(node.params.items) : ~HasAttr(node.params.items[i], "name")
       THEN Raise("AttributeError", st)
  ELSE IF \E i \in 1..Len(node.params.items) : node.params.items[i].name.kind # "str"
       THEN Raise("TypeError", st)
  ELSE Then(Each(node.nodes, FALSE, st), LAMBDA r :
         Ret(CatAll(<<T("{% macro "), TextOf(node.name.val), T("("),
                      Join(T(", "), [i \in 1..Len(node.params.items) |->
                                       TextOf(Slice1(node.params.items[i].name.val))]),
                      T(") -%}"), NL, T("    "),
                      Join(Cat(NL, T("    ")), r.texts),
                      NL, T("{%- endmacro -%}"), NL, NL>>), r.st))

Return(node, st) == Ret(jcomment(Repr(node)), st)

\* "if is_expr: return body / else: return jexpr(body)"
CallText(body, is_expr) == IF is_expr THEN body ELSE jexpr(body, 0, FALSE, TRUE)

FunctionCall(node, is_expr, st) ==
  IF node.name.kind # "str" \/ node.params.kind # "list" THEN Raise("TypeError", st)
  ELSE Then(Params(node.params.items, [st EXCEPT !.calls = Record(@, node.name, node)]),
            LAMBDA r :
         IF EndsWith(node.name.val, <<"p", "r", "i", "n", "t", "f">>)
         THEN IF r.texts = <<>> THEN Raise("IndexError", r.st)
              ELSE Ret(CallText(CatAll(<<r.texts[1], T(" % ("),
                                         Join(T(", "), Tail(r.texts)), T(",)")>>),
                                is_expr), r.st)
         ELSE IF Unbound({"StaticMethodCall"}) THEN Raise("NameError", r.st)
         ELSE Ret(CallText(CatAll(<<TextOf(node.name.val), T("("),
                                    Join(T(", "), r.texts), T(")")>>), is_expr), r.st))

MethodCall(node, is_expr, st) ==
  IF node.params.kind # "list" THEN Raise("TypeError", st)
  ELSE Then(Params(node.params.items, st), LAMBDA r :
         Then(unparse_node(node.node, TRUE, 0, r.st), LAMBDA o :
           Ret(CallText(CatAll(<<o.text, T("."), TextOf(node.name.val), T("("),
                                 Join(T(", "), r.texts), T(")")>>), is_expr), o.st)))

StaticMethodCall(node, is_expr, st) ==
  IF node.params.kind # "list" THEN Raise("TypeError", st)
  ELSE Then(Params(node.params.items, st), LAMBDA r :
         Ret(CallText(CatAll(<<TextOf(node.class_.val), T("."), TextOf(node.name.val),
                               T("("), Join(T(", "), r.texts), T(")")>>), is_expr), r.st))

New(node, is_expr, st) ==
  unparse_node(Node("FunctionCall", <<node.name, node.params>>), is_expr, 0, st)

\* whether repr(v) holds a quote character: some str occurs in v
RECURSIVE HasStr(_)
HasStr(v) ==
  CASE v.kind = "str" -> TRUE
    [] v.kind \in {"None", "bool", "int"} -> FALSE
    [] v.kind = "list" -> \E i \in 1..Len(v.items) : HasStr(v.items[i])
    [] OTHER -> \E i \in 1..Len(Classes[v.kind]) : HasStr(v[Classes[v.kind][i]])

\* the last two returns: the XXX markers ('%r' of a str picks the quote repr picks)
Unknown(node, is_expr, st) ==
  IF is_expr
  THEN Ret(CatAll(<<T("XXX("), IF HasStr(node) THEN T("\"") ELSE T("'"), Repr(node),
                    IF HasStr(node) THEN T("\"") ELSE T("'"), T(")")>>), st)
  ELSE Ret(CatAll(<<T("{# XXX "), Repr(node), T(" #}")>>), st)

\* the branch b of the dispatch
Branch(b, node, is_expr, indent, st) ==
  CASE b = "NameError" -> Raise("NameError", st)
    [] b = "InlineHTML" ->
         Ret(IF node.data.kind = "str" THEN TextOf(node.data.val) ELSE Repr(node.data), st)
    [] b = "Constant" ->
         IF node.name.kind # "str" THEN Raise("AttributeError", st)
         ELSE Ret(ConstantMapGet(node.name.val), st)
    [] b = "Variable" ->
         IF node.name.kind # "str" THEN Raise("TypeError", st)
         ELSE Ret(TextOf(Slice1(node.name.val)), st)
    [] b = "Echo" -> Echo(node, st)
    [] b = "Include" -> Include(node, st)
    [] b = "Block" -> Block(node, st)
    [] b = "ArrayOffset" -> ArrayOffset(node, st)
    [] b = "ObjectProperty" -> ObjectProperty(node, st)
    [] b = "Array" -> Array(node, st)
    [] b = "ArrayElement" -> ArrayElement(node, st)
    [] b = "Assignment" -> Assignment(node, st)
    [] b = "AssignOp" -> AssignOp(node, st)
    [] b = "UnaryOp" -> UnaryOp(node, st)
    [] b = "BinaryOp" -> BinaryOp(node, st)
    [] b = "TernaryOp" -> TernaryOp(node, st)
    [] b = "IsSet" -> IsSet(node, st)
    [] b = "Empty" -> Empty(node, st)
    [] b = "Silence" -> Silence(node, st)
    [] b = "Cast" -> Cast(node, st)
    [] b = "If" -> If(node, indent, st)
    [] b = "While" -> While(node, st)
    [] b = "Foreach" -> Foreach(node, st)
    [] b = "Function" -> Function(node, st)
    [] b = "Return" -> Return(node, st)
    [] b = "FunctionCall" -> FunctionCall(node, is_expr, st)
    [] b = "MethodCall" -> MethodCall(node, is_expr, st)
    [] b = "StaticMethodCall" -> StaticMethodCall(node, is_expr, st)
    [] b = "New" -> New(node, is_expr, st)
    [] OTHER -> Unknown(node, is_expr, st)

unparse_node(node, is_expr, indent, st) ==
  IF node.kind \in {"str", "int", "float", "bool"} THEN Ret(Repr(node), st)
  ELSE Branch(Taken(node), node, is_expr, indent, st)

\* unparse(nodes, join_with): the texts of the nodes, joined
unparse(nodes, join_with, st) ==
  Then(Calls([i \in 1..Len(nodes) |-> <<nodes[i], FALSE, 0>>], st), LAMBDA r :
    Ret(Join(join_with, r.texts), r.st))

-----------------------------------------------------------------------------
(* The module-level driver: stub synthesis and the final post-process       *)

Arity(n) == Len(n.params.items)

\* x put behind the last node of the sorted list that has no more parameters than x
Insert(front, x, k) == SubSeq(front, 1, k) \o <<x>> \o SubSeq(front, k + 1, Len(front))

InsertByArity(front, x) ==
  Insert(front, x, Cardinality({i \in 1..Len(front) : Arity(front[i]) <= Arity(x)}))

\* sorted(nodes, key=lambda n: len(n.params)): stable
RECURSIVE SortedByArity(_)
SortedByArity(nodes) ==
  IF nodes = <<>> THEN <<>>
  ELSE InsertByArity(SortedByArity(SubSeq(nodes, 1, Len(nodes) - 1)), nodes[Len(nodes)])

\* the sequences of n different members of set
Pick(set, n) == {ex \in [1..n -> set] : \A i, j \in 1..n : ex[i] = ex[j] => i = j}

\* list(set(texts))[:3]: the set's order is the hash order, any order
Examples(texts) ==
  IF Cardinality({texts[i] : i \in 1..Len(texts)}) < 3
  THEN Pick({texts[i] : i \in 1..Len(texts)}, Cardinality({texts[i] : i \in 1..Len(texts)}))
  ELSE Pick({texts[i] : i \in 1..Len(texts)}, 3)

\* "def name(arg0, arg1, ...):\n"
StubHeader(name, longest_arity) ==
  CatAll(<<T("def "), TextOf(name.val), T("("),
           Join(T(", "), [i \in 1..Arity(longest_arity) |-> T("arg" \o ToString(i - 1))]),
           T("):"), NL>>)

RECURSIVE ExampleLines(_)
ExampleLines(ex) ==
  IF ex = <<>> THEN <<>>
  ELSE CatAll(<<T("    # "), Head(ex), NL, ExampleLines(Tail(ex))>>)

StubPass == CatAll(<<T("    pass"), NL, NL>>)

RECURSIVE StubLoop(_, _, _)

\* one pass of the loop body, nodes being the sorted nodes and head the text written
\* up to the stub's first line
StubBody(i, nodes, head, st) ==
  IF Arity(nodes[Len(nodes)]) > 0
  THEN UNION {IF r.exc # "" THEN {[exc |-> r.exc, text |-> head, st |-> r.st]}
              ELSE IF Len(r.st.calls) # Len(st.calls)
                   THEN {[exc |-> "RuntimeError", text |-> head, st |-> r.st]}
              ELSE UNION {StubLoop(i + 1, CatAll(<<head, ExampleLines(ex), StubPass>>), r.st)
                            : ex \in Examples(r.texts)}
                : r \in {Calls([j \in 1..Len(nodes) |-> <<nodes[j], TRUE, 0>>], st)}}
  ELSE StubLoop(i + 1, Cat(head, StubPass), st)

StubEntry(i, written, nodes, st) ==
  StubBody(i, nodes, Cat(written, StubHeader(st.calls[i].name, nodes[Len(nodes)])), st)

\* the loop over called_functions.items() from entry i on: every outcome it may have,
\* text being what was written to stubsfile
StubLoop(i, written, st) ==
  IF i > Len(st.calls) THEN {Ret(written, st)}
  ELSE StubEntry(i, written, SortedByArity(st.calls[i].nodes), st)

StubsText(st) ==
  StubLoop(1, CatAll(<<T("# stubs for observed function calls"), NL>>), st)

\* jinja.replace("\n\n", "\n"): leftmost non-overlapping occurrences
RECURSIVE Collapse(_)
Collapse(t) ==
  IF Len(t) < 2 THEN t
  ELSE IF t[1] = "\n" /\ t[2] = "\n" THEN NL \o Collapse(SubSeq(t, 3, Len(t)))
  ELSE <<t[1]>> \o Collapse(Tail(t))

-----------------------------------------------------------------------------
(* The inputs explored: trees as the parser builds them                     *)

Var(c) == Node("Variable", <<S(<<"$", c>>)>>)
Param(n) == Node("Parameter", <<n, B(FALSE)>>)
CallOf(name, nodes) ==
  Node("FunctionCall", <<S(name), L([i \in 1..Len(nodes) |-> Param(nodes[i])])>>)
EchoOf(nodes) == Node("Echo", <<L(nodes)>>)
BlockOf(nodes) == Node("Block", <<L(nodes)>>)

Html == Node("InlineHTML", <<S(<<"<", "p", ">">>)>>)
BlankLines == Node("InlineHTML", <<S(<<"\n", "\n">>)>>)
EchoX == EchoOf(<<Var("x")>>)
EchoXY == EchoOf(<<Var("x"), Var("y")>>)
SetA == Node("Assignment", <<Var("a"), Var("x"), B(FALSE)>>)
AppendA == Node("Assignment", <<Node("ArrayOffset", <<Var("a"), None>>), Var("x"), B(FALSE)>>)
ConcatA == Node("AssignOp", <<S(<<".", "=">>), Var("a"), Var("x")>>)
IfElse ==
  Node("If", <<Var("a"), BlockOf(<<EchoX>>),
               L(<<Node("ElseIf", <<Var("b"), BlockOf(<<EchoOf(<<Var("y")>>)>>)>>)>>),
               Node("Else", <<BlockOf(<<EchoX>>)>>)>>)
WhileA == Node("While", <<Var("a"), BlockOf(<<EchoX>>)>>)
IncludeT == Node("Include", <<S(<<"t">>), B(FALSE)>>)
CallF0 == CallOf(<<"f">>, <<>>)
CallF1 == CallOf(<<"f">>, <<Var("x")>>)
EchoCalls ==
  EchoOf(<<CallF1, CallOf(<<"f">>, <<Var("x"), Var("y"), Var("z")>>),
           CallOf(<<"f">>, <<Var("x"), Var("y")>>)>>)
MacroG ==
  Node("Function", <<S(<<"g">>), L(<<Node("FormalParameter", <<S(<<"$", "p">>), None, B(FALSE)>>)>>),
                     L(<<EchoOf(<<Var("p")>>)>>), B(FALSE)>>)

\* statements a parsed template may hold at its top level
Stmts ==
  {Html, BlankLines, EchoX, EchoXY, SetA, AppendA, ConcatA, IfElse, WhileA, IncludeT,
   CallF0, CallF1, EchoCalls, MacroG}

\* the lists of top-level nodes the parser may return
Programs == UNION {[1..n -> Stmts] : n \in 0..MaxTop}

\* the value a minimal instance of `kind` holds in `field`
MinimalField(kind, field) ==
  CASE field \in {"nodes", "params", "elseifs", "modifiers", "implements"} -> L(<<>>)
    [] field \in {"is_ref", "once"} -> B(FALSE)
    [] field \in {"else_", "keyvar", "default", "initial", "extends"} -> None
    [] field = "data" -> S(<<"h">>)
    [] field = "op" -> IF kind = "AssignOp" THEN S(<<".", "=">>) ELSE S(<<"!">>)
    [] field = "type" -> S(<<"i", "n", "t">>)
    [] field = "valvar" ->
         LET c == CHOOSE c \in {"ForEachVariable", "ForeachVariable"} : c \in Kinds
         IN Node(c, <<S(<<"$", "v">>), B(FALSE)>>)
    [] field \in {"name", "class_", "value"} ->
         IF kind \in {"Variable", "FormalParameter", "StaticVariable", "ClassVariable",
                      "ForEachVariable", "ForeachVariable"}
         THEN S(<<"$", "x">>) ELSE S(<<"f">>)
    [] OTHER -> Var("x")

\* a minimal instance of a node kind: empty lists, absent options, a variable where
\* an expression is required
Minimal(kind) ==
  Node(kind, [i \in 1..Len(Classes[kind]) |-> MinimalField(kind, Classes[kind][i])])

\* the nodes a caller hands to unparse_node
Nodes == {Minimal(k) : k \in Kinds} \cup Stmts

-----------------------------------------------------------------------------
(* The state machine                                                        *)

OldTemplate == <<"old template">>
OldStubs == <<"old stubs">>

\* what the two destinations hold when the process starts
OutfileAtStart == IF args.output THEN OldTemplate ELSE <<>>
StubsfileAtStart == IF args.stubs THEN OldStubs ELSE <<>>

Globals == [calls |-> called_functions, idx |-> loop_var_index]

\* called_functions = {} ... loop_var_index = 1
InitialGlobals == [calls |-> <<>>, idx |-> 1]

NoRet == [exc |-> "", text |-> <<>>]
NoCall ==
  [fn |-> "none", arg |-> <<>>, is_expr |-> FALSE, before |-> InitialGlobals,
   first |-> NoRet]

\* a process started with some command line: args = parser.parse_args() has returned
Init ==
  /\ pc = "args"
  /\ args \in [output : BOOLEAN, dry_run : BOOLEAN, stubs : BOOLEAN,
               use_line_statements : BOOLEAN]
  /\ outfile = OutfileAtStart
  /\ stubsfile = StubsfileAtStart
  /\ ast = <<>>
  /\ jinja = <<>>
  /\ called_functions = <<>>
  /\ loop_var_index = 1
  /\ call = NoCall
  /\ ret = NoRet

\* output = open(args.output, "w") if args.output else sys.stdout; the globals
Open ==
  /\ pc = "args"
  /\ outfile' = IF args.output THEN <<>> ELSE outfile
  /\ called_functions' = InitialGlobals.calls
  /\ loop_var_index' = InitialGlobals.idx
  /\ pc' = "loaded"
  /\ UNCHANGED <<args, stubsfile, ast, jinja, call, ret>>

\* whether parser.parse raises on the text read
ParserOutcomes == {"ast", "raise"}

\* php = input.read() ... ast = parser.parse(php, lexer=lexer)
Parse ==
  /\ pc = "loaded"
  /\ \E o \in ParserOutcomes :
       IF o = "raise"
       THEN pc' = "aborted" /\ ast' = ast /\ ret' = [exc |-> "ParseError", text |-> <<>>]
       ELSE pc' = "parsed" /\ ast' \in Programs /\ ret' = ret
  /\ UNCHANGED <<args, outfile, stubsfile, jinja, called_functions, loop_var_index,
                 call>>

\* jinja = unparse(ast)
Translate ==
  /\ pc = "parsed"
  /\ \E r \in {unparse(ast, NL, Globals)} :
       /\ called_functions' = r.st.calls
       /\ loop_var_index' = r.st.idx
       /\ ret' = [exc |-> r.exc, text |-> r.text]
       /\ IF r.exc # "" THEN pc' = "aborted" /\ jinja' = jinja
          ELSE pc' = "translated" /\ jinja' = r.text
  /\ UNCHANGED <<args, outfile, stubsfile, ast, call>>

\* if args.stubs and called_functions: with open(args.stubs, "w") as stubsfile: ...
WriteStubs ==
  /\ pc = "translated"
  /\ IF args.stubs /\ called_functions # <<>>
     THEN \E o \in StubsText(Globals) :
            /\ stubsfile' = o.text
            /\ called_functions' = o.st.calls
            /\ loop_var_index' = o.st.idx
            /\ pc' = IF o.exc # "" THEN "aborted" ELSE "stubbed"
     ELSE pc' = "stubbed" /\ UNCHANGED <<stubsfile, called_functions, loop_var_index>>
  /\ UNCHANGED <<args, outfile, ast, jinja, call, ret>>

\* if not args.dry_run: jinja = jinja.replace("\n\n", "\n"); output.write(jinja)
WriteOutput ==
  /\ pc = "stubbed"
  /\ IF ~args.dry_run
     THEN jinja' = Collapse(jinja) /\ outfile' = Cat(outfile, Collapse(jinja))
     ELSE UNCHANGED <<jinja, outfile>>
  /\ pc' = "done"
  /\ UNCHANGED <<args, stubsfile, ast, called_functions, loop_var_index, call, ret>>

Next == Open \/ Parse \/ Translate \/ WriteStubs \/ WriteOutput

Spec == Init /\ [][Next]_vars

-----------------------------------------------------------------------------
(* The two functions called directly: a caller in the loaded module calls   *)
(* unparse_node or unparse once, then makes the same call once more.        *)

InitCalls ==
  /\ pc = "ready"
  /\ args \in [output : {FALSE}, dry_run : {FALSE}, stubs : {FALSE},
               use_line_statements : BOOLEAN]
  /\ outfile = <<>>
  /\ stubsfile = <<>>
  /\ ast = <<>>
  /\ jinja = <<>>
  /\ called_functions = InitialGlobals.calls
  /\ loop_var_index = InitialGlobals.idx
  /\ call = NoCall
  /\ ret = NoRet

\* the call returns or raises r
Returns(r) ==
  /\ called_functions' = r.st.calls
  /\ loop_var_index' = r.st.idx
  /\ ret' = [exc |-> r.exc, text |-> r.text]

\* unparse_node(node, is_expr)
CallUnparseNode ==
  /\ pc = "ready"
  /\ \E node \in Nodes, is_expr \in BOOLEAN :
       /\ call' = [fn |-> "unparse_node", arg |-> node, is_expr |-> is_expr,
                   before |-> Globals, first |-> NoRet]
       /\ Returns(unparse_node(node, is_expr, 0, Globals))
  /\ pc' = "returned"
  /\ UNCHANGED <<args, outfile, stubsfile, ast, jinja>>

\* unparse(nodes)
CallUnparse ==
  /\ pc = "ready"
  /\ \E nodes \in Programs :
       /\ call' = [fn |-> "unparse", arg |-> nodes, is_expr |-> FALSE,
                   before |-> Globals, first |-> NoRet]
       /\ Returns(unparse(nodes, NL, Globals))
  /\ pc' = "returned"
  /\ UNCHANGED <<args, outfile, stubsfile, ast, jinja>>

\* the same call once more, in the same process
CallAgain ==
  /\ pc = "returned"
  /\ call' = [call EXCEPT !.before = Globals, !.first = ret]
  /\ IF call.fn = "unparse"
     THEN Returns(unparse(call.arg, NL, Globals))
     ELSE Returns(unparse_node(call.arg, call.is_expr, 0, Globals))
  /\ pc' = "repeated"
  /\ UNCHANGED <<args, outfile, stubsfile, ast, jinja>>

NextCalls == CallUnparseNode \/ CallUnparse \/ CallAgain

SpecCalls == InitCalls /\ [][NextCalls]_vars

-----------------------------------------------------------------------------
(* The claims                                                               *)

\* C1: for every node kind of phpast.py, unparse_node called on a minimal instance
\* of the kind, in statement position and in expression position, returns text and
\* never raises.
NeverRaises ==
  (pc = "returned" /\ call.fn = "unparse_node"
     /\ call.arg \in {Minimal(k) : k \in Kinds})
  => ret.exc = ""

\* C2: when the parser fails on the source text, the template output destination and
\* the stub destination hold what they held when the run started.
ParseFailureWritesNothing ==
  (pc = "aborted" /\ ret.exc = "ParseError")
  => (outfile = OutfileAtStart /\ stubsfile = StubsfileAtStart)

\* C3: a dry run that has ended left the output destination as it was when the run
\* started, and wrote the stub file if a stub destination was requested and a call
\* was recorded.
DryRunLeavesOutput ==
  (pc = "done" /\ args.dry_run)
  => /\ outfile = OutfileAtStart
     /\ (args.stubs /\ called_functions # <<>>) => stubsfile # StubsfileAtStart

WhileCounts ==
  /\ (pc = "returned" /\ call.fn = "unparse_node" /\ call.arg = WhileA)
     => (ret.exc = "" /\ loop_var_index = call.before.idx + 1)
  /\ (pc = "returned" /\ call.fn = "unparse" /\ call.arg = <<WhileA, WhileA>>)
     => /\ ret.exc = ""
        /\ loop_var_index = call.before.idx + 2
        /\ ret.text =
             <<"{% for loop_var_" \o ToString(call.before.idx)
                 \o " in a -%}{{ x | safe -}}{% endfor -%}",
               "\n",
               "{% for loop_var_" \o ToString(call.before.idx + 1)
                 \o " in a -%}{{ x | safe -}}{% endfor -%}">>

\* C6: a run asked for stubs whose source calls f with 1, 3 and 2 arguments ends
\* with the stub file holding one stub of f with exactly the 3 parameters arg0, arg1,
\* arg2 and at most 3 example comments, pairwise different.
StubArity ==
  ((pc = "done" \/ pc = "aborted") /\ args.stubs /\ ast = <<EchoCalls>>)
  => \E n \in 0..3 :
       \E ex \in Pick({T("f(x)"), T("f(x, y)"), T("f(x, y, z)")}, n) :
         stubsfile = CatAll(<<T("# stubs for observed function calls"), NL,
                              T("def f(arg0, arg1, arg2):"), NL,
                              ExampleLines(ex), StubPass>>)

\* C7: after a plain function call node was translated the registry holds the node
\* under the callee's name, and translating a method call or a static method call
\* leaves the registry as it was.
RegistryRecords ==
  /\ (pc = "returned" /\ call.fn = "unparse_node" /\ call.arg.kind = "FunctionCall")
     => \E i \in 1..Len(called_functions) :
          /\ called_functions[i].name = call.arg.name
          /\ \E j \in 1..Len(called_functions[i].nodes) :
               called_functions[i].nodes[j] = call.arg
  /\ (pc = "returned" /\ call.fn = "unparse_node"
        /\ call.arg.kind \in {"MethodCall", "StaticMethodCall"})
     => called_functions = call.before.calls

\* C8 (as the code has it): translating an Echo node to text gives the concatenation
\* of its translated operands followed by " | safe" inside an output tag whose
\* closing delimiter strips the whitespace after it; an echo of the single
\* variable $x gives exactly {{ x | safe -}}, in either mode.
EchoSafe ==
  (pc = "returned" /\ call.fn = "unparse_node" /\ call.arg.kind = "Echo"
     /\ ret.exc = "")
  => /\ ret.text = CatAll(<<T("{{ "),
                            CatAll(Each(call.arg.nodes, TRUE, call.before).texts),
                            T(" | safe -}}")>>)
     /\ call.arg = EchoX => ret.text = <<"{{ x | safe -}}">>
     /\ call.arg = EchoXY => ret.text = <<"{{ xy | safe -}}">>

\* C8 happens: an echo of the single variable $x was translated in delimiter mode.
EchoSafeSeen ==
  /\ pc = "returned"
  /\ call.fn = "unparse_node"
  /\ call.arg = EchoX
  /\ ~args.use_line_statements
  /\ ret.exc = ""

\* C8 (as stated): translating an echo of the single variable $x in delimiter mode
\* yields exactly {{ x | safe }}.
EchoSafeAsStated ==
  (pc = "returned" /\ call.fn = "unparse_node" /\ call.arg = EchoX
     /\ ~args.use_line_statements)
  => ret.text = <<"{{ x | safe }}">>

\* C9: with line-statement mode enabled the set, include and do statements are
\* rendered as the line "# stmt" (between newlines, as jstatement renders a line
\* statement) with the statement content of delimiter mode and no tag punctuation,
\* and an expression tag is rendered as in delimiter mode.
LineStatements ==
  (pc = "returned" /\ call.fn = "unparse_node" /\ args.use_line_statements)
  => /\ call.arg = SetA => ret.text = <<"\n", "# set a = x", "\n">>
     /\ call.arg = ConcatA => ret.text = <<"\n", "# set a = a ~ x", "\n">>
     /\ call.arg = IncludeT => ret.text = <<"\n", "# include 't'", "\n">>
     /\ call.arg = AppendA => ret.text = <<"\n", "# do a.append(x)", "\n">>
     /\ call.arg = EchoX => ret.text = <<"{{ x | safe -}}">>

\* C10: the text a run has written went through the blank-line collapse once, and
\* collapsing it once more returns it unchanged.
CollapseIdempotent ==
  (pc = "done" /\ ~args.dry_run) => Collapse(jinja) = jinja

=============================================================================
